---- MODULE Spec2Model ----
(***************************************************************************)
(* Model of PartitionSegmentWithPopover.stories.tsx: four Storybook        *)
(* stories, each a React function component that memoizes a mock "subset"  *)
(* (useMemo with an empty dependency list) built from randomly generated   *)
(* partition-key labels, and passes it to PartitionSegmentWithPopover.     *)
(* Also modelled, each under its own specification: the label generator   *)
(* and the label transform on their own, and the assets of the            *)
(* hello-dagster and managing-ml guides.                                   *)
(*                                                                         *)
(* Strings are sequences of UTF-16 code units, each written as a string.    *)
(* The random word source                                                  *)
(* (faker.random.words) is an input: a stream of words selected by a seed, *)
(* drawn afresh whenever the generator runs.                               *)
(***************************************************************************)
EXTENDS Integers, Sequences, FiniteSets, TLC

VARIABLES
    mounted,      \* story -> is the story component currently mounted
    memo,         \* story -> the useMemo cell of the component: <<>> or
                  \*   <<[id, value, deps]>>, id naming the object the factory returned
    props,        \* story -> props last passed to PartitionSegmentWithPopover: <<>> or
                  \*   <<[description, status, subset]>>, subset a reference (object id)
    renders,      \* story -> number of renders of the current mount
    genCalls,     \* story -> number of times the useMemo factory (label generator) ran
    failed,       \* story -> a render of the story threw
    selectCalls,  \* number of invocations of a selectPartition callback
    genN,         \* stand-alone generator: the requested count
    runs,         \* stand-alone generator: results of the invocations so far
    mlEvents,     \* managing-ml: materialization events of conditional_machine_learning_model
    mlRuns,       \* managing-ml: what each run of the asset saw and did
    hnFetched,    \* hello-dagster: the id list the topstories endpoint returns
    hnFile,       \* hello-dagster: hackernews_top_story_ids.json, <<>> or <<ids>>
    hnResults,    \* hello-dagster: rows of hackernews_top_stories.csv, <<>> or <<rows>>
    hnMetadata,   \* hello-dagster: output metadata of hackernews_top_stories, <<>> or <<record>>
    phrase,       \* label transform on its own: the input phrase
    label         \* label transform on its own: <<>> or <<the label of phrase>>

mlVars == <<mlEvents, mlRuns>>
hnVars == <<hnFetched, hnFile, hnResults, hnMetadata>>
labelVars == <<phrase, label>>

vars == <<mounted, memo, props, renders, genCalls, failed, selectCalls, genN, runs,
          mlEvents, mlRuns, hnFetched, hnFile, hnResults, hnMetadata, phrase, label>>

----------------------------------------------------------------------------
(* Bounds of the model *)

MaxMounts == 2      \* mounts, over all stories
MaxRenders == 2     \* renders per mount (the first one is the mount itself)
MaxSelects == 1     \* selectPartition invocations
NumSeeds == 2       \* distinct outcomes of the random source per generator run
MaxN == 7           \* largest count of the stand-alone generator
MaxRuns == 3        \* invocations of the stand-alone generator
MaxAcc == 3         \* model accuracies are 0..MaxAcc
MaxMLRuns == 3      \* runs of conditional_machine_learning_model
MaxIds == 11        \* longest id list the topstories endpoint returns
MaxPhraseLen == 3   \* longest phrase given to the label transform on its own

----------------------------------------------------------------------------
(* Constants of the program *)

PARTITION_COUNT == 300

Stories == {"TruePartitions", "FalsePartitions", "SkippedPartitions", "FewPartitions"}

Null == "null"          \* the JavaScript value null
Hole == "<empty>"       \* an empty slot of a sparse array

\* AssetConditionEvaluationStatus members used by the stories
StatusTRUE == "TRUE"
StatusFALSE == "FALSE"
StatusSKIPPED == "SKIPPED"

----------------------------------------------------------------------------
(* Characters and the label transform *)

Lower == {"a", "b"}
Upper == {"A", "B"}
Space == " "
Hyphen == "-"
DottedI == "U+0130"         \* LATIN CAPITAL LETTER I WITH DOT ABOVE
CombiningDot == "U+0307"    \* COMBINING DOT ABOVE

Chars == Lower \cup Upper \cup {Space, Hyphen, DottedI}

\* the lowercase form of a character that has a one-unit lowercase form
ToLowerChar(c) ==
    CASE c = "A" -> "a"
      [] c = "B" -> "b"
      [] OTHER -> c

\* the lowercase form of a character: U+0130 lowercases to the two units
\* U+0069 U+0307
ToLowerUnits(c) == IF c = DottedI THEN <<"i", CombiningDot>> ELSE <<ToLowerChar(c)>>

\* the lowercase forms of the characters of str, one after the other
RECURSIVE ConcatLower(_)
ConcatLower(str) ==
    IF str = <<>> THEN <<>> ELSE ToLowerUnits(Head(str)) \o ConcatLower(Tail(str))

\* String.prototype.toLowerCase; when every character has a one-unit lowercase
\* form the concatenation is computed position by position
ToLowerCase(str) ==
    IF \A i \in 1..Len(str) : str[i] # DottedI
    THEN [i \in 1..Len(str) |-> ToLowerChar(str[i])]
    ELSE ConcatLower(str)

\* variant: replace(/ /, '-') without the g flag replaces the first match only
ReplaceFirstSpace(str) ==
    [i \in 1..Len(str) |->
        IF str[i] = Space /\ (\A j \in 1..(i - 1) : str[j] # Space) THEN Hyphen ELSE str[i]]

\* String.prototype.replace(/ /g, '-'): the g flag replaces every match
ReplaceSpaces(str) == [i \in 1..Len(str) |-> IF str[i] = Space THEN Hyphen ELSE str[i]]

\* phrase.toLowerCase().replace(/ /g, '-')
LabelOf(str) == ReplaceSpaces(ToLowerCase(str))

----------------------------------------------------------------------------
(* The random word source *)

\* Shapes of words the source returns: a lowercase word, a capitalised word,
\* a word with a hyphen inside, an upper-case abbreviation.
Vocabulary ==
    << <<"a", "b">>,
       <<"B", "a">>,
       <<"a", "-", "b">>,
       <<"A", "B">> >>

Seeds == 0..(NumSeeds - 1)

\* the k-th word (k = 0, 1, ...) the source returns in a run with the given seed
RandomWord(seed, k) == Vocabulary[((seed + k) % Len(Vocabulary)) + 1]

\* faker.random.words(count): count words joined by single spaces; the first
\* word is the k-th of the run
RECURSIVE RandomWords(_, _, _)
RandomWords(count, seed, k) ==
    IF count <= 0 THEN <<>>
    ELSE IF count = 1 THEN RandomWord(seed, k)
    ELSE RandomWord(seed, k) \o <<Space>> \o RandomWords(count - 1, seed, k + 1)

\* variant: the label without toLowerCase()
MakeLabelNoLowerCase(seed, i) == ReplaceSpaces(RandomWords(2, seed, 2 * i))

\* () => faker.random.words(2).toLowerCase().replace(/ /g, '-'), for the i-th
\* element (i = 0, 1, ...) of the array
MakeLabel(seed, i) == LabelOf(RandomWords(2, seed, 2 * i))

----------------------------------------------------------------------------
(* Arrays *)

\* new Array(n): n empty slots; a negative length throws RangeError
NewArray(n) ==
    IF n < 0 THEN [ok |-> FALSE, error |-> "RangeError"]
    ELSE [ok |-> TRUE, value |-> [i \in 1..n |-> Hole]]

\* Array.prototype.fill(v)
Fill(arr, v) == [i \in 1..Len(arr) |-> v]

NumHyphens(str) == Cardinality({i \in 1..Len(str) : str[i] = Hyphen})

\* variant: labels with more than one hyphen are filtered out of the result
MapLabelsFiltered(arr, seed) ==
    SelectSeq([i \in 1..Len(arr) |-> IF arr[i] = Hole THEN <<Hole>> ELSE MakeLabel(seed, i - 1)],
              LAMBDA l : NumHyphens(l) <= 1)

\* Array.prototype.map(() => label): the callback is not called for empty slots
MapLabels(arr, seed) ==
    [i \in 1..Len(arr) |-> IF arr[i] = Hole THEN <<Hole>> ELSE MakeLabel(seed, i - 1)]

\* variant: new Array(n).map(() => ...), without fill(null)
GenerateLabelsNoFill(n, seed) ==
    LET a == NewArray(n)
    IN  IF a.ok THEN [ok |-> TRUE, value |-> MapLabels(a.value, seed)]
        ELSE a

\* new Array(n).fill(null).map(() => ...)
GenerateLabels(n, seed) ==
    LET a == NewArray(n)
    IN  IF a.ok THEN [ok |-> TRUE, value |-> MapLabels(Fill(a.value, Null), seed)]
        ELSE a

----------------------------------------------------------------------------
(* The stories *)

\* variant: FewPartitions copies the array size of the other stories
StoryCountCopied(s) == PARTITION_COUNT

\* variant: a size that is negative for FewPartitions
StoryCountNegative(s) == IF s = "FewPartitions" THEN 2 - PARTITION_COUNT ELSE PARTITION_COUNT

StoryCount(s) == IF s = "FewPartitions" THEN 2 ELSE PARTITION_COUNT

StoryBoolValue(s) ==
    CASE s = "TruePartitions" -> "true"
      [] s = "FalsePartitions" -> "false"
      [] s = "SkippedPartitions" -> Null
      [] s = "FewPartitions" -> "true"

\* variant: FewPartitions passes the status of SkippedPartitions
StoryStatusCopied(s) ==
    CASE s = "TruePartitions" -> StatusTRUE
      [] s = "FalsePartitions" -> StatusFALSE
      [] s = "SkippedPartitions" -> StatusSKIPPED
      [] s = "FewPartitions" -> StatusSKIPPED

StoryStatus(s) ==
    CASE s = "TruePartitions" -> StatusTRUE
      [] s = "FalsePartitions" -> StatusFALSE
      [] s = "SkippedPartitions" -> StatusSKIPPED
      [] s = "FewPartitions" -> StatusTRUE

\* variant: isPartitioned follows boolValue
BuildSubsetFlagFromBool(s, partitionKeys) ==
    [assetKey |-> [path |-> <<"foo", "bar">>],
     subsetValue |-> [boolValue |-> StoryBoolValue(s),
                      partitionKeys |-> partitionKeys,
                      partitionKeyRanges |-> Null,
                      isPartitioned |-> (StoryBoolValue(s) = "true")]]

\* the object returned by the useMemo factory
BuildSubset(s, partitionKeys) ==
    [assetKey |-> [path |-> <<"foo", "bar">>],
     subsetValue |-> [boolValue |-> StoryBoolValue(s),
                      partitionKeys |-> partitionKeys,
                      partitionKeyRanges |-> Null,
                      isPartitioned |-> TRUE]]

\* the useMemo factory of story s
Factory(s, seed) ==
    LET g == GenerateLabels(StoryCount(s), seed)
    IN  IF g.ok THEN [ok |-> TRUE, value |-> BuildSubset(s, g.value)]
        ELSE g

\* variant: useMemo without a dependency list recomputes on every render
RecomputesAlways(cell, deps) == TRUE

\* React.useMemo: the factory runs when the hook has no cell yet (first
\* render after mount) or when a dependency changed
Recomputes(cell, deps) == cell = <<>> \/ cell[1].deps # deps

\* the props of <PartitionSegmentWithPopover ... />; subset is passed by reference
Element(s, subset) ==
    [description |-> "is_missing",
     status |-> StoryStatus(s),
     subset |-> subset]

\* one call of the story's function component; the random source is drawn
\* from only when the factory runs
RenderStory(s) ==
    LET deps == <<>>
        recompute == Recomputes(memo[s], deps)
        id == IF recompute THEN genCalls[s] + 1 ELSE memo[s][1].id
    IN  \E f \in (IF recompute THEN {Factory(s, seed) : seed \in Seeds}
                   ELSE {[ok |-> TRUE, value |-> memo[s][1].value]}) :
        /\ genCalls' = [genCalls EXCEPT ![s] = IF recompute THEN @ + 1 ELSE @]
        /\ IF f.ok
           THEN /\ memo' = [memo EXCEPT ![s] = <<[id |-> id, value |-> f.value, deps |-> deps]>>]
                /\ props' = [props EXCEPT ![s] = <<Element(s, id)>>]
                /\ mounted' = [mounted EXCEPT ![s] = TRUE]
                /\ renders' = [renders EXCEPT ![s] = @ + 1]
                /\ UNCHANGED failed
           ELSE /\ failed' = [failed EXCEPT ![s] = TRUE]
                /\ memo' = [memo EXCEPT ![s] = <<>>]
                /\ props' = [props EXCEPT ![s] = <<>>]
                /\ mounted' = [mounted EXCEPT ![s] = FALSE]
                /\ renders' = [renders EXCEPT ![s] = 0]

RECURSIVE Sum(_, _)
Sum(f, S) == IF S = {} THEN 0 ELSE LET x == CHOOSE y \in S : TRUE IN f[x] + Sum(f, S \ {x})

\* the story is selected: first render of a new component instance
Mount(s) ==
    /\ ~mounted[s]
    /\ ~failed[s]
    /\ Sum(genCalls, Stories) < MaxMounts
    /\ RenderStory(s)
    /\ UNCHANGED <<selectCalls, genN, runs>>
    /\ UNCHANGED <<mlVars, hnVars, labelVars>>

\* the mounted story renders again
Rerender(s) ==
    /\ mounted[s]
    /\ renders[s] < MaxRenders
    /\ RenderStory(s)
    /\ UNCHANGED <<selectCalls, genN, runs>>
    /\ UNCHANGED <<mlVars, hnVars, labelVars>>

\* variant: leaving a story drops the memoized subsets of all stories
UnmountShared(s) ==
    /\ mounted[s]
    /\ mounted' = [mounted EXCEPT ![s] = FALSE]
    /\ memo' = [t \in Stories |-> <<>>]
    /\ props' = [props EXCEPT ![s] = <<>>]
    /\ renders' = [renders EXCEPT ![s] = 0]
    /\ UNCHANGED <<genCalls, failed, selectCalls, genN, runs>>
    /\ UNCHANGED <<mlVars, hnVars, labelVars>>

\* the story is left: the component instance and its hook state are dropped
Unmount(s) ==
    /\ mounted[s]
    /\ mounted' = [mounted EXCEPT ![s] = FALSE]
    /\ memo' = [memo EXCEPT ![s] = <<>>]
    /\ props' = [props EXCEPT ![s] = <<>>]
    /\ renders' = [renders EXCEPT ![s] = 0]
    /\ UNCHANGED <<genCalls, failed, selectCalls, genN, runs>>
    /\ UNCHANGED <<mlVars, hnVars, labelVars>>

\* keys a user can select in the popover of story s, and one that is not listed
SelectableKeys(s) ==
    IF memo[s] = <<>> THEN {}
    ELSE LET keys == memo[s][1].value.subsetValue.partitionKeys
         IN  {keys[1], keys[Len(keys)], <<"b">>}

\* variant: the callback removes the selected key from the subset
SelectPartitionRemoves(s, key) ==
    /\ mounted[s]
    /\ selectCalls < MaxSelects
    /\ selectCalls' = selectCalls + 1
    /\ memo' = [memo EXCEPT ![s][1].value.subsetValue.partitionKeys =
                    SelectSeq(@, LAMBDA l : l # key)]
    /\ UNCHANGED <<mounted, props, renders, genCalls, failed, genN, runs>>
    /\ UNCHANGED <<mlVars, hnVars, labelVars>>

\* selectPartition={() => {}} is invoked with a partition key
SelectPartition(s, key) ==
    /\ mounted[s]
    /\ selectCalls < MaxSelects
    /\ selectCalls' = selectCalls + 1
    /\ UNCHANGED <<mounted, memo, props, renders, genCalls, failed, genN, runs>>
    /\ UNCHANGED <<mlVars, hnVars, labelVars>>

InitStories ==
    /\ mounted = [s \in Stories |-> FALSE]
    /\ memo = [s \in Stories |-> <<>>]
    /\ props = [s \in Stories |-> <<>>]
    /\ renders = [s \in Stories |-> 0]
    /\ genCalls = [s \in Stories |-> 0]
    /\ failed = [s \in Stories |-> FALSE]
    /\ selectCalls = 0

\* the parts of the state a specification does not exercise
IdleGen == genN = 0 /\ runs = <<>>
IdleML == mlEvents = <<>> /\ mlRuns = <<>>
IdleHN == hnFetched = <<>> /\ hnFile = <<>> /\ hnResults = <<>> /\ hnMetadata = <<>>
IdleLabel == phrase = <<>> /\ label = <<>>

Init ==
    /\ InitStories
    /\ IdleGen
    /\ IdleML /\ IdleHN /\ IdleLabel

Next ==
    \/ \E s \in Stories : Mount(s)
    \/ \E s \in Stories : Rerender(s)
    \/ \E s \in Stories : Unmount(s)
    \/ \E s \in Stories : \E key \in SelectableKeys(s) : SelectPartition(s, key)

Spec == Init /\ [][Next]_vars

----------------------------------------------------------------------------
(* The label generator on its own, for any requested count *)

Invoke(seed) ==
    /\ Len(runs) < MaxRuns
    /\ runs' = Append(runs, GenerateLabels(genN, seed))
    /\ UNCHANGED <<genN, mounted, memo, props, renders, genCalls, failed, selectCalls>>
    /\ UNCHANGED <<mlVars, hnVars, labelVars>>

InitGen ==
    /\ InitStories
    /\ genN \in -1..MaxN
    /\ runs = <<>>
    /\ IdleML /\ IdleHN /\ IdleLabel

NextGen == \E seed \in Seeds : Invoke(seed)

SpecGen == InitGen /\ [][NextGen]_vars

----------------------------------------------------------------------------
(* managing-ml.mdx: conditional_machine_learning_model *)

\* reg.score(X_test, y_test): the accuracy of the newly trained model, an input
Accuracies == 0..MaxAcc

\* A materialization event of the asset: hasMat is the truth value of
\* event.asset_materialization, hasKey whether its metadata has a
\* "model_accuracy" entry, isFloat whether that entry's value is a float.
RunEvent(acc) ==
    [source |-> "run", hasMat |-> TRUE, hasKey |-> TRUE, isFloat |-> TRUE, value |-> acc]

\* events recorded before the first run of this code: without an asset
\* materialization, with an integer accuracy, without the entry, with a float
EarlierEvents ==
    { [source |-> "earlier", hasMat |-> FALSE, hasKey |-> FALSE, isFloat |-> FALSE, value |-> 0],
      [source |-> "earlier", hasMat |-> TRUE, hasKey |-> TRUE, isFloat |-> FALSE, value |-> 1],
      [source |-> "earlier", hasMat |-> TRUE, hasKey |-> FALSE, isFloat |-> FALSE, value |-> 0],
      [source |-> "earlier", hasMat |-> TRUE, hasKey |-> TRUE, isFloat |-> TRUE, value |-> 1] }

\* instance.get_latest_materialization_event(key): None (<<>>) or the last event
GetLatestMaterializationEvent(events) ==
    IF events = <<>> THEN <<>> ELSE <<events[Len(events)]>>

\* variant: the new model is kept when it is at least as accurate
ConditionalModelAtLeast(materialization, new) ==
    IF materialization = <<>> THEN "yield"
    ELSE LET m == materialization[1]
         IN  IF m.hasMat /\ ~m.hasKey THEN "KeyError"
             ELSE IF ~(m.hasMat /\ m.isFloat) \/ new >= m.value THEN "yield" ELSE "none"

\* variant: the comparison with the previous accuracy is left out
ConditionalModelAlways(materialization, new) ==
    IF materialization = <<>> THEN "yield"
    ELSE LET m == materialization[1]
         IN  IF m.hasMat /\ ~m.hasKey THEN "KeyError" ELSE "yield"

\* the body of the asset from the lookup of the previous materialization on:
\* "yield" when an Output is yielded, "none" when the function returns without
\* one, "KeyError" when metadata["model_accuracy"] does not exist
ConditionalModel(materialization, new) ==
    IF materialization = <<>> THEN "yield"
    ELSE LET m == materialization[1]
             \* previous_model_accuracy is None
             previousIsNone == ~(m.hasMat /\ m.isFloat)
         IN  IF m.hasMat /\ ~m.hasKey THEN "KeyError"
             ELSE IF previousIsNone \/ new > m.value THEN "yield" ELSE "none"

\* one run of the asset; a yielded Output is recorded as a materialization
\* whose metadata holds float(new_model_accuracy)
RunModel(new) ==
    LET materialization == GetLatestMaterializationEvent(mlEvents)
        outcome == ConditionalModel(materialization, new)
    IN  /\ Len(mlRuns) < MaxMLRuns
        /\ mlRuns' = Append(mlRuns, [before |-> materialization, new |-> new,
                                     outcome |-> outcome])
        /\ mlEvents' = IF outcome = "yield" THEN Append(mlEvents, RunEvent(new))
                       ELSE mlEvents
        /\ UNCHANGED <<mounted, memo, props, renders, genCalls, failed, selectCalls>>
        /\ UNCHANGED <<genN, runs, hnVars, labelVars>>

InitML ==
    /\ InitStories
    /\ IdleGen /\ IdleHN /\ IdleLabel
    /\ mlEvents \in {<<>>} \cup {<<e>> : e \in EarlierEvents}
    /\ mlRuns = <<>>

NextML == \E new \in Accuracies : RunModel(new)

SpecML == InitML /\ [][NextML]_vars

----------------------------------------------------------------------------
(* hello-dagster.mdx: hackernews_top_story_ids and hackernews_top_stories *)

\* the bound of the slice top_story_ids[:10]
TopN == 10

Min(a, b) == IF a <= b THEN a ELSE b

\* The id lists the topstories endpoint may return: n distinct story ids in
\* ascending order rotated by k, or that list reversed.
Rotated(n, k) == [i \in 1..n |-> 100 + ((i - 1 + k) % n)]

Reversed(lst) == [i \in 1..Len(lst) |-> lst[Len(lst) + 1 - i]]

IdLists ==
    {<<>>} \cup UNION {{Rotated(n, k), Reversed(Rotated(n, k))} :
                          <<n, k>> \in {<<m, j>> \in (1..MaxIds) \X (0..MaxIds) : j < m}}

\* variant: the slice lst[-n:], the last n elements
SliceLast(lst, n) == SubSeq(lst, Len(lst) - Min(n, Len(lst)) + 1, Len(lst))

\* the Python slice lst[:n] for n >= 0: the first n elements, all of them when
\* the list is shorter
Slice(lst, n) == SubSeq(lst, 1, Min(n, Len(lst)))

\* the item the items endpoint returns for an id
ItemOf(id) == [id |-> id, title |-> "title", by |-> "by", url |-> "url"]

\* for item_id in ids: results.append(item)
RECURSIVE FetchItems(_)
FetchItems(ids) ==
    IF ids = <<>> THEN <<>>
    ELSE <<ItemOf(Head(ids))>> \o FetchItems(Tail(ids))

\* hackernews_top_story_ids: fetch the list, dump the slice to the json file
TopStoryIds ==
    /\ hnFile' = <<Slice(hnFetched, TopN)>>
    /\ UNCHANGED <<hnFetched, hnResults, hnMetadata>>
    /\ UNCHANGED <<mounted, memo, props, renders, genCalls, failed, selectCalls>>
    /\ UNCHANGED <<genN, runs, mlVars, labelVars>>

\* hackernews_top_stories: runs after its dependency, so the file exists; load
\* the ids, fetch each item, write the csv, attach the metadata.  A frame
\* built from no rows has no columns: df[["title", "by", "url"]] then raises
\* KeyError after the csv is written and before the metadata is attached.
TopStories ==
    /\ hnFile # <<>>
    /\ LET results == FetchItems(hnFile[1])
       IN  /\ hnResults' = <<results>>
           /\ hnMetadata' = IF results = <<>> THEN hnMetadata
                            ELSE <<[num_records |-> Len(results)]>>
    /\ UNCHANGED <<hnFetched, hnFile>>
    /\ UNCHANGED <<mounted, memo, props, renders, genCalls, failed, selectCalls>>
    /\ UNCHANGED <<genN, runs, mlVars, labelVars>>

InitHN ==
    /\ InitStories
    /\ IdleGen /\ IdleML /\ IdleLabel
    /\ hnFetched \in IdLists
    /\ hnFile = <<>>
    /\ hnResults = <<>>
    /\ hnMetadata = <<>>

NextHN == TopStoryIds \/ TopStories

SpecHN == InitHN /\ [][NextHN]_vars

----------------------------------------------------------------------------
(* The label transform on its own, for any phrase *)

RECURSIVE Phrases(_)
Phrases(n) ==
    IF n = 0 THEN {<<>>}
    ELSE LET shorter == Phrases(n - 1)
         IN  shorter \cup {Append(p, c) : p \in {q \in shorter : Len(q) = n - 1}, c \in Chars}

Transform ==
    /\ label = <<>>
    /\ label' = <<LabelOf(phrase)>>
    /\ UNCHANGED phrase
    /\ UNCHANGED <<mounted, memo, props, renders, genCalls, failed, selectCalls>>
    /\ UNCHANGED <<genN, runs, mlVars, hnVars>>

InitLabel ==
    /\ InitStories
    /\ IdleGen /\ IdleML /\ IdleHN
    /\ phrase \in Phrases(MaxPhraseLen)
    /\ label = <<>>

NextLabel == Transform

SpecLabel == InitLabel /\ [][NextLabel]_vars

----------------------------------------------------------------------------
(* Properties *)

\* the subset object a mounted story passes to the component (props.subset
\* dereferenced)
PassedSubset(s) == memo[s][1].value

Passes(s) == props[s] # <<>> /\ memo[s] # <<>> /\ props[s][1].subset = memo[s][1].id

KeysOf(s) == PassedSubset(s).subsetValue.partitionKeys

\* the number of slots of an array that hold an entry
NumEntries(arr) == Cardinality({i \in 1..Len(arr) : arr[i] # <<Hole>>})

IsLowerWord(w) == Len(w) >= 1 /\ \A i \in 1..Len(w) : w[i] \in Lower

\* two lowercase words joined by one hyphen
IsTwoWordLabel(l) ==
    \E i \in 2..(Len(l) - 1) :
        /\ l[i] = Hyphen
        /\ IsLowerWord(SubSeq(l, 1, i - 1))
        /\ IsLowerWord(SubSeq(l, i + 1, Len(l)))

AllLabels == UNION {{runs[r].value[i] : i \in 1..Len(runs[r].value)} :
                        r \in {q \in 1..Len(runs) : runs[q].ok}}

\* C1: for every requested count N >= 0 each invocation of the label generator
\* returns an array of length N all of whose N slots hold an entry; for N = 0
\* the result is the empty sequence.
C1_LengthIsN ==
    genN >= 0 =>
        \A r \in 1..Len(runs) :
            /\ runs[r].ok
            /\ Len(runs[r].value) = genN
            /\ NumEntries(runs[r].value) = genN
            /\ (genN = 0 => runs[r].value = <<>>)

C1_Witness ==
    /\ genN = 3
    /\ Len(runs) >= 1
    /\ runs[1].ok
    /\ Len(runs[1].value) = 3

\* C2 (as stated): every generated label is exactly two lowercase words joined
\* by exactly one hyphen.
C2_TwoWordPattern == \A l \in AllLabels : IsTwoWordLabel(l)

\* C2 (amended): every generated label contains no space and no upper-case
\* letter and at least one hyphen: the hyphen that replaces the joining space,
\* besides any hyphen of the words themselves.
C2_NoSpaceNoUpperHyphenated ==
    \A l \in AllLabels :
        /\ \A i \in 1..Len(l) : l[i] # Space /\ l[i] \notin Upper
        /\ NumHyphens(l) >= 1

C2_Witness ==
    \E l \in AllLabels : NumHyphens(l) = 2 /\ ~IsTwoWordLabel(l)

\* C3: in every story the boolValue of the subset is one of true, false, null
\* and matches the status passed to the component: true with TRUE, false with
\* FALSE, null with SKIPPED.
C3_BoolValueMatchesStatus ==
    \A s \in Stories :
        Passes(s) =>
            LET bv == PassedSubset(s).subsetValue.boolValue
                st == props[s][1].status
            IN  /\ bv \in {"true", "false", Null}
                /\ (bv = "true") <=> (st = StatusTRUE)
                /\ (bv = "false") <=> (st = StatusFALSE)
                /\ (bv = Null) <=> (st = StatusSKIPPED)

C3_Witness ==
    /\ Passes("SkippedPartitions")
    /\ PassedSubset("SkippedPartitions").subsetValue.boolValue = Null
    /\ props["SkippedPartitions"][1].status = StatusSKIPPED

\* C4: two invocations of the generator with the same count return arrays of
\* the same length, whatever the random source returned in each.
C4_SameLength ==
    \A r1, r2 \in 1..Len(runs) :
        (runs[r1].ok /\ runs[r2].ok) => Len(runs[r1].value) = Len(runs[r2].value)

C4_Witness ==
    /\ Len(runs) >= 2
    /\ genN >= 1
    /\ runs[1].ok /\ runs[2].ok
    /\ runs[1].value # runs[2].value
    /\ Len(runs[1].value) = Len(runs[2].value)

\* C5: while a story stays mounted a re-render keeps the memoized subset (the
\* same object, the same keys in the same order), passes that object to the
\* component and does not run the generator; unmounting drops the subset; a
\* mount runs the generator once and passes the new object.
C5_MemoizedWhileMounted ==
    [][\A s \in Stories :
         /\ (mounted[s] /\ mounted'[s]) =>
                /\ memo'[s] = memo[s]
                /\ genCalls'[s] = genCalls[s]
                /\ props'[s][1].subset = memo[s][1].id
         /\ (mounted[s] /\ ~mounted'[s]) => (memo'[s] = <<>> /\ props'[s] = <<>>)
         /\ (~mounted[s] /\ mounted'[s]) =>
                /\ genCalls'[s] = genCalls[s] + 1
                /\ memo'[s][1].id = genCalls'[s]
                /\ props'[s][1].subset = memo'[s][1].id]_vars

C5_Witness ==
    \E s \in Stories : mounted[s] /\ renders[s] = 2 /\ genCalls[s] = 2

\* everything the model keeps for one story
StoryState(s) == <<mounted[s], memo[s], props[s], renders[s], genCalls[s], failed[s]>>

\* C6: a step that changes the state of one story (mount, re-render, unmount)
\* leaves the state of every other story, its subset included, unchanged.
C6_StoriesIndependent ==
    [][\A s, t \in Stories :
         (s # t /\ StoryState(s)' # StoryState(s)) => StoryState(t)' = StoryState(t)]_vars

C6_Witness ==
    /\ mounted["TruePartitions"] /\ renders["TruePartitions"] = 2
    /\ mounted["FalsePartitions"] /\ renders["FalsePartitions"] = 1

\* C7: in every render TruePartitions, FalsePartitions and SkippedPartitions
\* pass exactly 300 partition keys and FewPartitions passes exactly 2.
C7_Cardinality ==
    \A s \in Stories :
        Passes(s) =>
            /\ PARTITION_COUNT = 300
            /\ Len(KeysOf(s)) = (IF s = "FewPartitions" THEN 2 ELSE 300)
            /\ NumEntries(KeysOf(s)) = Len(KeysOf(s))

C7_Witness ==
    /\ Passes("FewPartitions") /\ Len(KeysOf("FewPartitions")) = 2
    /\ Passes("TruePartitions") /\ Len(KeysOf("TruePartitions")) = 300

\* C8: every subset a story builds has partitionKeyRanges null, isPartitioned
\* true and assetKey path foo/bar, whatever its boolValue and keys.
C8_ConstantFields ==
    \A s \in Stories :
        memo[s] # <<>> =>
            /\ memo[s][1].value.subsetValue.partitionKeyRanges = Null
            /\ memo[s][1].value.subsetValue.isPartitioned = TRUE
            /\ memo[s][1].value.assetKey.path = <<"foo", "bar">>

C8_Witness ==
    /\ memo["FalsePartitions"] # <<>>
    /\ memo["FalsePartitions"][1].value.subsetValue.boolValue = "false"
    /\ memo["FalsePartitions"][1].value.subsetValue.isPartitioned = TRUE

\* C9: an invocation of selectPartition, with any key, changes neither the
\* subset of any story nor the props (status, description, subset) passed to
\* the component.
C9_SelectPartitionNoOp ==
    [][selectCalls' # selectCalls =>
         UNCHANGED <<mounted, memo, props, renders, genCalls, failed>>]_vars

C9_Witness ==
    /\ selectCalls >= 1
    /\ \E s \in Stories : Passes(s) /\ props[s][1].description = "is_missing"

IsLabel(l) == Len(l) >= 1 /\ \A i \in 1..Len(l) : l[i] \in Lower \cup {Hyphen}

WellFormed(subset) ==
    /\ DOMAIN subset = {"assetKey", "subsetValue"}
    /\ DOMAIN subset.subsetValue =
           {"boolValue", "partitionKeys", "partitionKeyRanges", "isPartitioned"}
    /\ Len(subset.assetKey.path) >= 1
    /\ subset.subsetValue.boolValue \in {"true", "false", Null}
    /\ subset.subsetValue.isPartitioned \in BOOLEAN
    /\ \A i \in 1..Len(subset.subsetValue.partitionKeys) :
           IsLabel(subset.subsetValue.partitionKeys[i])

\* C10: no render of a story throws, and every mounted story holds and passes
\* a well-formed subset.
C10_NoFailure ==
    \A s \in Stories :
        /\ ~failed[s]
        /\ mounted[s] => (Passes(s) /\ WellFormed(PassedSubset(s)))

C10_Witness ==
    /\ mounted["SkippedPartitions"] /\ mounted["FewPartitions"]
    /\ genCalls["SkippedPartitions"] = 1 /\ genCalls["FewPartitions"] = 1

HasFloatAccuracy(materialization) ==
    materialization # <<>> /\ materialization[1].hasMat /\ materialization[1].hasKey
        /\ materialization[1].isFloat

\* C11: a run that finds a previous materialization with a float model_accuracy
\* yields an Output exactly when the new accuracy is strictly greater than the
\* previous one (none when equal or lower); a run that finds no previous
\* materialization always yields an Output.
C11_YieldsIffImproved ==
    \A r \in 1..Len(mlRuns) :
        LET run == mlRuns[r]
        IN  /\ HasFloatAccuracy(run.before) =>
                ((run.outcome = "yield") <=> (run.new > run.before[1].value))
            /\ HasFloatAccuracy(run.before) => run.outcome \in {"yield", "none"}
            /\ run.before = <<>> => run.outcome = "yield"

C11_Witness ==
    \E r \in 1..Len(mlRuns) :
        /\ HasFloatAccuracy(mlRuns[r].before)
        /\ mlRuns[r].new = mlRuns[r].before[1].value
        /\ mlRuns[r].outcome = "none"
        /\ \E q \in 1..Len(mlRuns) : mlRuns[q].before = <<>> /\ mlRuns[q].outcome = "yield"

\* the materializations recorded by runs, in order
RunEventsOf(events) == SelectSeq(events, LAMBDA e : e.source = "run")

\* C13: the model_accuracy values of the successive materializations recorded
\* by runs are strictly increasing, and once a run has recorded one the latest
\* materialization carries an accuracy no run so far has exceeded.
C13_StrictlyIncreasing ==
    LET h == RunEventsOf(mlEvents)
    IN  /\ \A i, j \in 1..Len(h) : i < j => h[i].value < h[j].value
        /\ Len(h) >= 1 =>
              /\ mlEvents[Len(mlEvents)] = h[Len(h)]
              /\ \A r \in 1..Len(mlRuns) : mlRuns[r].new <= h[Len(h)].value

C13_Witness ==
    /\ Len(RunEventsOf(mlEvents)) >= 2
    /\ \E r \in 1..Len(mlRuns) : mlRuns[r].outcome = "none"

NumSpaces(str) == Cardinality({i \in 1..Len(str) : str[i] = Space})

\* what a position of the phrase becomes in a position-wise transform
ExpectedAt(c) ==
    CASE c = Space -> Hyphen
      [] c = "A" -> "a"
      [] c = "B" -> "b"
      [] OTHER -> c

PositionWise(p, l) ==
    /\ Len(l) = Len(p)
    /\ \A i \in 1..Len(p) : i <= Len(l) /\ l[i] = ExpectedAt(p[i])

HyphensCounted(p, l) ==
    /\ NumSpaces(l) = 0
    /\ NumHyphens(l) = NumSpaces(p) + NumHyphens(p)

====
